---- MODULE Spec2Model ----
(***************************************************************************)
(* Model of backend/comprehensive_accounting_fix.py, the script that       *)
(* repairs the ledger: classify, delete, reset, rebuild, validate, report,  *)
(* and of backend/restore_accounting_data.py, which puts a backup back.     *)
(*                                                                          *)
(* The store is three collections kept in natural (insertion) order:        *)
(* accounts, transactions and invoices.  Strings the code searches or       *)
(* lower-cases (account names, account types, categories) are TLA+ strings   *)
(* handled character by character with Len and SubSeq.  Money is counted in  *)
(* half currency units, so that 1.0 is the integer Tolerance.               *)
(***************************************************************************)
EXTENDS Integers, Sequences, FiniteSets, TLC

VARIABLES
    accounts,        \* db.accounts: sequence of account documents
    transactions,    \* db.transactions: sequence of transaction documents
    invoices,        \* db.invoices: sequence of invoice documents
    pc,              \* position of the running script
    runs,            \* number of completed runs of comprehensive_fix
    backup_success,  \* result of create_backup in the current run
    fixed_count,     \* value returned by the last fix_account_types
    old_payment_txns,\* indices of the seeds read by the last rebuild
    seeds_used,      \* indices of the seeds the last rebuild made a pair from
    created,         \* indices of the transactions inserted by the last rebuild
    tb,              \* result of the last validate_trial_balance
    de,              \* result of the last validate_double_entry
    result,          \* value returned by the last comprehensive_fix
    pre,             \* the store as it was when the current run started
    report,          \* the last audit report
    before_fix,      \* the accounts as the last fix_account_types found them
    done_stores,     \* the store at the end of each completed run
    exit_status,     \* exit status of the last process of the script, -1 before any
    snapshot         \* the latest backup file written by create_backup, if any

vars == <<accounts, transactions, invoices, pc, runs, backup_success, fixed_count,
          old_payment_txns, seeds_used, created, tb, de, result, pre, report,
          before_fix, done_stores, exit_status, snapshot>>

-----------------------------------------------------------------------------
(* Bounds of the model.                                                     *)

MaxAccounts == 2     \* accounts in the initial store
MaxTxns == 2         \* transactions in the initial store
MaxRuns == 2         \* completed runs of the procedure

-----------------------------------------------------------------------------
(* Python string operations.                                                *)

UpperChars == "ABCDEFGHIJKLMNOPQRSTUVWXYZ"
LowerChars == "abcdefghijklmnopqrstuvwxyz"

\* str.lower() on the upper-case letters
LowerOfUpper ==
    [c \in {SubSeq(UpperChars, i, i) : i \in 1..Len(UpperChars)} |->
        LET i == CHOOSE j \in 1..Len(UpperChars) : SubSeq(UpperChars, j, j) = c
        IN  SubSeq(LowerChars, i, i)]

\* str.lower() on one character
LowerChar(c) == IF c \in DOMAIN LowerOfUpper THEN LowerOfUpper[c] ELSE c

\* str.lower()
RECURSIVE lower(_)
lower(s) ==
    IF Len(s) = 0 THEN ""
    ELSE LowerChar(SubSeq(s, 1, 1)) \o lower(SubSeq(s, 2, Len(s)))

\* needle in hay (substring test)
Contains(hay, needle) ==
    \E i \in 1..(Len(hay) - Len(needle) + 1) :
        SubSeq(hay, i, i + Len(needle) - 1) = needle

\* A document key that is absent: dict.get(key, default) yields the default.
NoField == "<absent>"
Get(value, default) == IF value = NoField THEN default ELSE value

\* Python's None, as the value of correct_type when no entry matched.
None == "<None>"

-----------------------------------------------------------------------------
(* Taxonomy.                                                                *)

\* keys of ACCOUNT_TYPES
ACCOUNT_TYPES == {"asset", "income", "expense", "liability", "equity"}

\* STANDARD_ACCOUNTS in declaration order (dicts iterate in insertion order)
STANDARD_ACCOUNTS == <<
    <<"Cash", "asset">>,
    <<"Bank", "asset">>,
    <<"Petty Cash", "asset">>,
    <<"Sales", "income">>,
    <<"Sales Income", "income">>,
    <<"Gold Exchange", "income">>,
    <<"Gold Exchange Income", "income">>,
    <<"Making Charges Income", "income">>,
    <<"Stone Charges Income", "income">>,
    <<"Service Income", "income">>,
    <<"GST Payable", "liability">>,
    <<"VAT Payable", "liability">>,
    <<"Customer Advance", "liability">>,
    <<"Rent Expense", "expense">>,
    <<"Wages Expense", "expense">>,
    <<"Bank Charges", "expense">>,
    <<"Accounts Receivable", "asset">>,
    <<"Accounts Payable", "liability">>,
    <<"Capital", "equity">>,
    <<"Retained Earnings", "equity">> >>

\* calculate_balance_delta
calculate_balance_delta(account_type, transaction_type, amount) ==
    IF account_type \in {"asset", "expense"}
    THEN (IF transaction_type = "debit" THEN amount ELSE -amount)
    ELSE (IF transaction_type = "credit" THEN amount ELSE -amount)

-----------------------------------------------------------------------------
(* Step 1: fix_account_types.                                               *)

\* std_name.lower() for every entry of the table
LoweredStandardNames ==
    [k \in DOMAIN STANDARD_ACCOUNTS |-> lower(STANDARD_ACCOUNTS[k][1])]

\* the entries of the table whose name is in the account name (line 132)
Matches(account_name) ==
    LET lowered == lower(account_name)
    IN  {k \in DOMAIN STANDARD_ACCOUNTS : Contains(lowered, LoweredStandardNames[k])}

\* the inner loop with the longest matching name winning (faulty variant)
CorrectTypeLongest(account_name) ==
    LET hits == Matches(account_name)
    IN  IF hits = {} THEN None
        ELSE LET k == CHOOSE h \in hits :
                          \A g \in hits : Len(STANDARD_ACCOUNTS[g][1]) <= Len(STANDARD_ACCOUNTS[h][1])
             IN  STANDARD_ACCOUNTS[k][2]

\* the inner loop: the first entry of the table that matches, then break
CorrectType(account_name) ==
    LET hits == Matches(account_name)
    IN  IF hits = {} THEN None
        ELSE LET k == CHOOSE h \in hits : \A g \in hits : h <= g
             IN  STANDARD_ACCOUNTS[k][2]

\* the loop body with line 146 testing the labels of ACCOUNT_TYPES, not its
\* keys (faulty variant)
TypeWrittenLabels(account) ==
    LET account_name == account.name
        current_type == lower(Get(account.account_type, ""))
        correct_type == CorrectType(account_name)
    IN  IF correct_type # None /\ correct_type # current_type THEN correct_type
        ELSE IF current_type \notin {"ASSET", "INCOME", "EXPENSE", "LIABILITY", "EQUITY"}
             THEN "asset"
        ELSE NoField

\* the account_type the loop body writes for one account, or NoField if it
\* writes nothing
TypeWritten(account) ==
    LET account_name == account.name
        current_type == lower(Get(account.account_type, ""))
        correct_type == CorrectType(account_name)
    IN  IF correct_type # None /\ correct_type # current_type THEN correct_type
        ELSE IF current_type \notin ACCOUNT_TYPES THEN "asset"
        ELSE NoField

\* the accounts collection after fix_account_types
FixedAccounts(accs) ==
    [i \in DOMAIN accs |->
        LET written == IF accs[i].is_deleted THEN NoField ELSE TypeWritten(accs[i])
        IN  IF written # NoField
            THEN [accs[i] EXCEPT !.account_type = written]
            ELSE accs[i]]

\* the value fix_account_types returns: the number of update_one calls
FixedCount(accs) ==
    Cardinality({i \in DOMAIN accs :
                    ~accs[i].is_deleted /\ TypeWritten(accs[i]) # NoField})

-----------------------------------------------------------------------------
(* Queries on a collection.                                                 *)

\* find_one: of the positions that match, the first in natural order; 0 when
\* none matches
FindOne(matching) ==
    IF matching = {} THEN 0
    ELSE CHOOSE i \in matching : \A j \in matching : i <= j

\* find(...).to_list(None): the positions that match, in natural order, from
\* position k on
RECURSIVE FindAll(_, _, _)
FindAll(coll, matching, k) ==
    IF k > Len(coll) THEN <<>>
    ELSE (IF k \in matching THEN <<k>> ELSE <<>>) \o FindAll(coll, matching, k + 1)

\* count_documents({"is_deleted": False})
ActiveCount(txns) == Cardinality({i \in DOMAIN txns : ~txns[i].is_deleted})

-----------------------------------------------------------------------------
(* Step 2: delete_all_transactions.                                         *)

FIX_ACTOR == "COMPREHENSIVE_ACCOUNTING_FIX"

\* the update of lines 166-177 filtered to invoice payments only
\* (faulty variant)
DeletedTransactionsInvoicesOnly(txns, now) ==
    [i \in DOMAIN txns |->
        IF ~txns[i].is_deleted /\ txns[i].reference_type = "invoice"
        THEN [txns[i] EXCEPT !.is_deleted = TRUE,
                             !.deleted_at = now,
                             !.deleted_by = FIX_ACTOR]
        ELSE txns[i]]

\* the update of lines 166-177 with an empty filter, stamping tombstones
\* again (faulty variant)
DeletedTransactionsRestamped(txns, now) ==
    [i \in DOMAIN txns |->
        [txns[i] EXCEPT !.is_deleted = TRUE,
                        !.deleted_at = now,
                        !.deleted_by = FIX_ACTOR]]

\* the update of lines 166-177 without its deleted_by (faulty variant)
DeletedTransactionsNoActor(txns, now) ==
    [i \in DOMAIN txns |->
        IF ~txns[i].is_deleted
        THEN [txns[i] EXCEPT !.is_deleted = TRUE, !.deleted_at = now]
        ELSE txns[i]]

\* update_many({"is_deleted": False}, {"$set": {...}}) at time now
DeletedTransactions(txns, now) ==
    [i \in DOMAIN txns |->
        IF ~txns[i].is_deleted
        THEN [txns[i] EXCEPT !.is_deleted = TRUE,
                             !.deleted_at = now,
                             !.deleted_by = FIX_ACTOR]
        ELSE txns[i]]

-----------------------------------------------------------------------------
(* Step 3: reset_account_balances.                                          *)

\* reset_account_balances that forgets the write (faulty variant)
ResetAccountsSkipped(accs) == accs

ResetAccounts(accs) ==
    [i \in DOMAIN accs |->
        IF ~accs[i].is_deleted
        THEN [accs[i] EXCEPT !.current_balance = accs[i].opening_balance]
        ELSE accs[i]]

-----------------------------------------------------------------------------
(* Step 4: rebuild_transactions_from_payments.                              *)

\* the query of lines 217-221
IsOldPayment(t) ==
    t.is_deleted /\ t.reference_type = "invoice" /\ t.deleted_by = FIX_ACTOR

OldPaymentTxns(txns) ==
    FindAll(txns, {i \in DOMAIN txns : IsOldPayment(txns[i])}, 1)

\* payments_by_invoice with each group holding only its first transaction,
\* as if line 234 assigned instead of appending (faulty variant)
RECURSIVE GroupedFromFirstOnly(_, _, _)
GroupedFromFirstOnly(txns, old, k) ==
    IF k > Len(old) THEN <<>>
    ELSE LET invoice_id == txns[old[k]].reference_id
             first == invoice_id # 0
                      /\ \A j \in 1..(k - 1) : txns[old[j]].reference_id # invoice_id
         IN  (IF first THEN <<old[k]>> ELSE <<>>)
             \o GroupedFromFirstOnly(txns, old, k + 1)

\* payments_by_invoice flattened: the groups in the order their invoice id
\* first appears, each group in query order; a falsy reference_id is skipped
RECURSIVE GroupedFrom(_, _, _)
GroupedFrom(txns, old, k) ==
    IF k > Len(old) THEN <<>>
    ELSE LET invoice_id == txns[old[k]].reference_id
             first == invoice_id # 0
                      /\ \A j \in 1..(k - 1) : txns[old[j]].reference_id # invoice_id
             InGroup(i) == txns[i].reference_id = invoice_id
         IN  (IF first THEN SelectSeq(old, InGroup) ELSE <<>>)
             \o GroupedFrom(txns, old, k + 1)

PaymentsByInvoice(txns) == GroupedFrom(txns, OldPaymentTxns(txns), 1)

\* str(uuid.uuid4()): an id no document and no reference holds
NewId(accs) == MaxAccounts + Len(accs) + 1

NewAccount(id, name, account_type) ==
    [id |-> id, name |-> name, account_type |-> account_type,
     opening_balance |-> 0, current_balance |-> 0, is_deleted |-> FALSE]

IsActiveCash(a) == a.name = "Cash" /\ ~a.is_deleted
IsActiveSales(a) == a.name \in {"Sales Income", "Sales"} /\ ~a.is_deleted

\* lines 237-250
EnsureCash(accs) ==
    IF FindOne({i \in DOMAIN accs : IsActiveCash(accs[i])}) # 0 THEN accs
    ELSE Append(accs, NewAccount(NewId(accs), "Cash", "asset"))

\* lines 252-267
EnsureSales(accs) ==
    IF FindOne({i \in DOMAIN accs : IsActiveSales(accs[i])}) # 0 THEN accs
    ELSE Append(accs, NewAccount(NewId(accs), "Sales Income", "income"))

\* update_one({"id": id}, {"$inc": {"current_balance": delta}})
IncBalance(accs, id, delta) ==
    LET k == FindOne({i \in DOMAIN accs : accs[i].id = id})
    IN  IF k = 0 THEN accs
        ELSE [accs EXCEPT ![k].current_balance = @ + delta]

NewTransaction(number, transaction_type, account_id, amount, category, invoice_id) ==
    [transaction_number |-> number, transaction_type |-> transaction_type,
     account_id |-> account_id, amount |-> amount, category |-> category,
     reference_type |-> "invoice", reference_id |-> invoice_id,
     is_deleted |-> FALSE, deleted_at |-> -1, deleted_by |-> NoField]

\* the credit leg written with the invoice's reference lost (faulty variant)
CreditTransactionNoRef(count, sales_income_account, payment_amount, invoice_id) ==
    NewTransaction(count + 2, "credit", sales_income_account.id, payment_amount,
                   "Invoice Payment - Sales Income (Credit)", 0)

\* the credit leg numbered like its debit leg (faulty variant)
CreditTransactionSameNumber(count, sales_income_account, payment_amount, invoice_id) ==
    NewTransaction(count + 1, "credit", sales_income_account.id, payment_amount,
                   "Invoice Payment - Sales Income (Credit)", invoice_id)

\* lines 301-321
DebitTransaction(count, account_id, payment_amount, invoice_id) ==
    NewTransaction(count + 1, "debit", account_id, payment_amount,
                   "Invoice Payment - Cash/Bank (Debit)", invoice_id)

\* lines 338-358
CreditTransaction(count, sales_income_account, payment_amount, invoice_id) ==
    NewTransaction(count + 2, "credit", sales_income_account.id, payment_amount,
                   "Invoice Payment - Sales Income (Credit)", invoice_id)

\* lines 282-284 letting a zero amount through (faulty variant)
SkipsNegativeOnly(payment_amount) == payment_amount < 0

\* lines 282-284: the payments the loop passes over
SkipsAmount(payment_amount) == payment_amount <= 0

\* the body of the loops of lines 270-374 for one old transaction; st holds
\* the two collections and the indices of the transactions inserted so far
ProcessPayment(st, old_txn, cash_account, sales_income_account, invs) ==
    LET invoice_id == old_txn.reference_id
        invoice == FindOne({i \in DOMAIN invs :
                              invs[i].id = invoice_id /\ ~invs[i].is_deleted})
        payment_amount == old_txn.amount
        wanted_id == IF old_txn.account_id = 0 THEN cash_account.id
                     ELSE old_txn.account_id
        found == FindOne({i \in DOMAIN st.accs :
                            st.accs[i].id = wanted_id /\ ~st.accs[i].is_deleted})
        payment_account == IF found = 0 THEN cash_account ELSE st.accs[found]
        account_id == IF found = 0 THEN cash_account.id ELSE wanted_id
        count == ActiveCount(st.txns)
        debit == DebitTransaction(count, account_id, payment_amount, invoice_id)
        credit == CreditTransaction(count, sales_income_account, payment_amount,
                                    invoice_id)
        accs1 == IncBalance(st.accs, account_id,
                     calculate_balance_delta(Get(payment_account.account_type, "asset"),
                                             "debit", payment_amount))
        accs2 == IncBalance(accs1, sales_income_account.id,
                     calculate_balance_delta(Get(sales_income_account.account_type, "income"),
                                             "credit", payment_amount))
    IN  IF invoice = 0 THEN st
        ELSE IF Contains(Get(old_txn.category, ""), "Income") THEN st
        ELSE IF SkipsAmount(payment_amount) THEN st
        ELSE [accs |-> accs2,
              txns |-> st.txns \o <<debit, credit>>,
              new  |-> st.new \o <<Len(st.txns) + 1, Len(st.txns) + 2>>,
              used |-> st.used]

\* the loops of lines 270-374 over the grouped old transactions; used records
\* which of them a pair was made from
RECURSIVE ProcessAll(_, _, _, _, _, _, _)
ProcessAll(st, old, order, k, cash_account, sales_income_account, invs) ==
    IF k > Len(order) THEN st
    ELSE LET next == ProcessPayment(st, old[order[k]], cash_account,
                                    sales_income_account, invs)
             used == IF Len(next.txns) > Len(st.txns) THEN <<order[k]>> ELSE <<>>
         IN  ProcessAll([next EXCEPT !.used = st.used \o used],
                        old, order, k + 1, cash_account, sales_income_account, invs)

\* the whole of rebuild_transactions_from_payments
Rebuilt(accs, txns, invs) ==
    LET ensured == EnsureSales(EnsureCash(accs))
        cash_account ==
            ensured[FindOne({i \in DOMAIN ensured : IsActiveCash(ensured[i])})]
        sales_income_account ==
            ensured[FindOne({i \in DOMAIN ensured : IsActiveSales(ensured[i])})]
    IN  ProcessAll([accs |-> ensured, txns |-> txns, new |-> <<>>, used |-> <<>>],
                   txns, PaymentsByInvoice(txns), 1,
                   cash_account, sales_income_account, invs)

-----------------------------------------------------------------------------
(* Steps 5 and 6: the validators.                                           *)

\* the tolerance 1.0 of lines 426 and 448, in half currency units
Tolerance == 2

Abs(x) == IF x < 0 THEN -x ELSE x

RECURSIVE SumBalances(_, _, _)
\* sum of current_balance over the non-deleted accounts whose bucket, the
\* account_type with 'unknown' for a missing one, is in types
SumBalances(accs, types, k) ==
    IF k > Len(accs) THEN 0
    ELSE (IF ~accs[k].is_deleted /\ Get(accs[k].account_type, "unknown") \in types
          THEN accs[k].current_balance ELSE 0)
         + SumBalances(accs, types, k + 1)

\* the buckets the loop of line 402 visits
PrintedTypes == {"asset", "expense", "income", "liability", "equity", "unknown"}

\* line 415: the buckets added to total_debit_balance
DebitSideTypes == {"asset", "expense"}

\* line 417: every other visited bucket is added to total_credit_balance
CreditSideTypes == PrintedTypes \ DebitSideTypes

\* line 426 with <= for < (faulty variant)
TrialIsBalancedInclusive(total_debit_balance, total_credit_balance) ==
    Abs(total_debit_balance - total_credit_balance) <= Tolerance

\* line 426
TrialIsBalanced(total_debit_balance, total_credit_balance) ==
    Abs(total_debit_balance - total_credit_balance) < Tolerance

\* validate_trial_balance: (is_balanced, total_debit_balance, total_credit_balance)
validate_trial_balance(accs) ==
    LET total_debit_balance == SumBalances(accs, DebitSideTypes, 1)
        total_credit_balance == SumBalances(accs, CreditSideTypes, 1)
    IN  [is_balanced |-> TrialIsBalanced(total_debit_balance, total_credit_balance),
         total_debit_balance |-> total_debit_balance,
         total_credit_balance |-> total_credit_balance]

RECURSIVE SumAmounts(_, _, _)
\* sum of amount over the non-deleted transactions of one transaction_type
SumAmounts(txns, transaction_type, k) ==
    IF k > Len(txns) THEN 0
    ELSE (IF ~txns[k].is_deleted /\ txns[k].transaction_type = transaction_type
          THEN txns[k].amount ELSE 0)
         + SumAmounts(txns, transaction_type, k + 1)

\* line 448
DoubleEntryIsBalanced(total_debits, total_credits) ==
    Abs(total_debits - total_credits) < Tolerance

\* validate_double_entry
validate_double_entry(txns) ==
    DoubleEntryIsBalanced(SumAmounts(txns, "debit", 1), SumAmounts(txns, "credit", 1))

\* generate_audit_report: the summary and validation parts of the report
AuditReport(accs, txns, invs) ==
    [total_accounts |-> Cardinality({i \in DOMAIN accs : ~accs[i].is_deleted}),
     total_transactions |-> ActiveCount(txns),
     total_invoices |-> Cardinality({i \in DOMAIN invs : ~invs[i].is_deleted}),
     trial_balance_valid |-> validate_trial_balance(accs).is_balanced,
     double_entry_valid |-> validate_double_entry(txns)]

-----------------------------------------------------------------------------
(* Initial stores.                                                          *)

\* all sequences over S of length at most n
SeqsUpTo(S, n) == UNION {[1..k -> S] : k \in 0..n}

\* account documents found in a store before a run, without their ids
AccountDocs == {
    [name |-> "Cash", account_type |-> "asset",
     opening_balance |-> 0, current_balance |-> 1, is_deleted |-> FALSE],
    [name |-> "Cash", account_type |-> "asset",
     opening_balance |-> 0, current_balance |-> 0, is_deleted |-> TRUE],
    [name |-> "Bank", account_type |-> "asset",
     opening_balance |-> 2, current_balance |-> 4, is_deleted |-> FALSE],
    [name |-> "Cash", account_type |-> "ASSET",
     opening_balance |-> 0, current_balance |-> 0, is_deleted |-> FALSE],
    [name |-> "Sales", account_type |-> NoField,
     opening_balance |-> 1, current_balance |-> 3, is_deleted |-> FALSE],
    [name |-> "Sales", account_type |-> "INCOME",
     opening_balance |-> 0, current_balance |-> 0, is_deleted |-> FALSE] }

\* the documents of a collection numbered by position: ids are unique
WithIds(docs) ==
    [i \in DOMAIN docs |->
        [id |-> i, name |-> docs[i].name, account_type |-> docs[i].account_type,
         opening_balance |-> docs[i].opening_balance,
         current_balance |-> docs[i].current_balance,
         is_deleted |-> docs[i].is_deleted]]

OldTransaction(number, transaction_type, account_id, amount, category, reference_type, reference_id) ==
    [transaction_number |-> number, transaction_type |-> transaction_type,
     account_id |-> account_id, amount |-> amount, category |-> category,
     reference_type |-> reference_type, reference_id |-> reference_id,
     is_deleted |-> FALSE, deleted_at |-> -1, deleted_by |-> NoField]

\* transaction documents found in a store before a run, written by the
\* application: payments (both legs), a zero payment, a payment of a deleted
\* invoice, a payment tombstoned by an administrator, and a purchase
TransactionDocs == <<
    OldTransaction(1, "debit", 1, 2, "Invoice Payment", "invoice", 1),
    OldTransaction(2, "credit", 2, 2, "Sales Income", "invoice", 1),
    OldTransaction(3, "debit", 2, 1, "Invoice Payment", "invoice", 3),
    OldTransaction(4, "debit", 0, 3, NoField, "invoice", 1),
    OldTransaction(5, "debit", 1, 0, "Invoice Payment", "invoice", 1),
    OldTransaction(6, "debit", 1, 4, "Invoice Payment", "invoice", 2),
    [OldTransaction(7, "debit", 1, 2, "Invoice Payment", "invoice", 1)
        EXCEPT !.is_deleted = TRUE, !.deleted_at = 0, !.deleted_by = "admin"],
    OldTransaction(8, "debit", 1, 1, "Purchase", "purchase", 1) >>

\* the documents of docs whose positions are in chosen, in order
RECURSIVE Pick(_, _, _)
Pick(docs, chosen, k) ==
    IF k > Len(docs) THEN <<>>
    ELSE (IF k \in chosen THEN <<docs[k]>> ELSE <<>>) \o Pick(docs, chosen, k + 1)

InvoiceDocs == <<
    [id |-> 1, is_deleted |-> FALSE],
    [id |-> 2, is_deleted |-> TRUE],
    [id |-> 3, is_deleted |-> FALSE] >>

NoTrialBalance ==
    [is_balanced |-> FALSE, total_debit_balance |-> 0, total_credit_balance |-> 0]

NoReport ==
    [total_accounts |-> 0, total_transactions |-> 0, total_invoices |-> 0,
     trial_balance_valid |-> FALSE, double_entry_valid |-> FALSE]

Store == [accounts |-> accounts, transactions |-> transactions, invoices |-> invoices]

\* everything but the store and pc, before anything has run
InitRest ==
    /\ runs = 0
    /\ backup_success = FALSE
    /\ fixed_count = 0
    /\ old_payment_txns = <<>>
    /\ seeds_used = <<>>
    /\ created = <<>>
    /\ tb = NoTrialBalance
    /\ de = FALSE
    /\ result = FALSE
    /\ report = NoReport
    /\ pre = Store
    /\ before_fix = accounts
    /\ done_stores = <<>>
    /\ exit_status = -1
    /\ snapshot = <<>>

InitStore ==
    /\ \E docs \in SeqsUpTo(AccountDocs, MaxAccounts) : accounts = WithIds(docs)
    /\ \E chosen \in SUBSET (1..Len(TransactionDocs)) :
          /\ Cardinality(chosen) <= MaxTxns
          /\ transactions = Pick(TransactionDocs, chosen, 1)
    /\ invoices = InvoiceDocs

Init == InitStore /\ pc = "idle" /\ InitRest

-----------------------------------------------------------------------------
(* The script: comprehensive_fix, one action per step.                      *)

\* the exit status of the process: the script ends with
\* asyncio.run(comprehensive_fix()), which drops the returned value, and
\* the interpreter ends normally
ExitStatus(returned) == 0

\* the file written by the backup script that create_backup runs: a copy of
\* the collections as they are at that moment
backup_accounting_data(store) ==
    [accounts |-> store.accounts, transactions |-> store.transactions,
     invoices |-> store.invoices]

\* python comprehensive_accounting_fix.py
Start ==
    /\ pc \in {"idle", "done", "aborted"}
    /\ runs < MaxRuns
    /\ pc' = "backup"
    /\ pre' = Store
    /\ UNCHANGED <<exit_status, snapshot, accounts, transactions, invoices, runs, backup_success,
                   fixed_count, old_payment_txns, seeds_used, created, tb, de, result, report,
                   before_fix, done_stores>>

\* lines 529-533 without the early return (faulty variant)
AfterBackupNoAbort(ok) == "fix_types"

\* lines 529-533: where comprehensive_fix goes after create_backup
AfterBackup(ok) == IF ok THEN "fix_types" ELSE "aborted"

\* Step 0: create_backup succeeds or fails
Backup ==
    /\ pc = "backup"
    /\ \E ok \in BOOLEAN :
          /\ backup_success' = ok
          /\ pc' = AfterBackup(ok)
          /\ result' = IF pc' = "aborted" THEN FALSE ELSE result
          /\ exit_status' = IF pc' = "aborted" THEN ExitStatus(FALSE) ELSE exit_status
          /\ snapshot' = IF ok THEN <<backup_accounting_data(Store)>>
                         ELSE snapshot
    /\ UNCHANGED <<accounts, transactions, invoices, runs, fixed_count,
                   old_payment_txns, seeds_used, created, tb, de, report, pre, before_fix,
                   done_stores>>

\* Step 1: fix_account_types
FixAccountTypes(at, next) ==
    /\ pc = at
    /\ before_fix' = accounts
    /\ accounts' = FixedAccounts(accounts)
    /\ fixed_count' = FixedCount(accounts)
    /\ pc' = next
    /\ UNCHANGED <<exit_status, snapshot, transactions, invoices, runs, backup_success, old_payment_txns, seeds_used,
                   created, tb, de, result, report, pre, done_stores>>

\* Step 2: delete_all_transactions
DeleteAllTransactions ==
    /\ pc = "delete"
    /\ transactions' = DeletedTransactions(transactions, runs + 1)
    /\ pc' = "reset"
    /\ UNCHANGED <<exit_status, snapshot, accounts, invoices, runs, backup_success, fixed_count,
                   old_payment_txns, seeds_used, created, tb, de, result, report, pre,
                   before_fix, done_stores>>

\* Step 3: reset_account_balances
ResetAccountBalances ==
    /\ pc = "reset"
    /\ accounts' = ResetAccounts(accounts)
    /\ pc' = "rebuild"
    /\ UNCHANGED <<exit_status, snapshot, transactions, invoices, runs, backup_success, fixed_count,
                   old_payment_txns, seeds_used, created, tb, de, result, report, pre,
                   before_fix, done_stores>>

\* Step 4: rebuild_transactions_from_payments
RebuildTransactions ==
    /\ pc = "rebuild"
    /\ LET st == Rebuilt(accounts, transactions, invoices)
       IN  /\ accounts' = st.accs
           /\ transactions' = st.txns
           /\ created' = st.new
           /\ seeds_used' = st.used
    /\ old_payment_txns' = OldPaymentTxns(transactions)
    /\ pc' = "validate_tb"
    /\ UNCHANGED <<exit_status, snapshot, invoices, runs, backup_success, fixed_count, tb, de, result,
                   report, pre, before_fix, done_stores>>

\* Step 5: validate_trial_balance
ValidateTrialBalance(at, next) ==
    /\ pc = at
    /\ tb' = validate_trial_balance(accounts)
    /\ pc' = next
    /\ UNCHANGED <<exit_status, snapshot, accounts, transactions, invoices, runs, backup_success,
                   fixed_count, old_payment_txns, seeds_used, created, de, result, report, pre,
                   before_fix, done_stores>>

\* Step 6: validate_double_entry
ValidateDoubleEntry(at, next) ==
    /\ pc = at
    /\ de' = validate_double_entry(transactions)
    /\ pc' = next
    /\ UNCHANGED <<exit_status, snapshot, accounts, transactions, invoices, runs, backup_success,
                   fixed_count, old_payment_txns, seeds_used, created, tb, result, report, pre,
                   before_fix, done_stores>>

\* Step 7: generate_audit_report, then the return of line 576
GenerateAuditReport ==
    /\ pc = "report"
    /\ report' = AuditReport(accounts, transactions, invoices)
    /\ result' = (tb.is_balanced /\ de)
    /\ runs' = runs + 1
    /\ done_stores' = Append(done_stores, Store)
    /\ exit_status' = ExitStatus(result')
    /\ pc' = "done"
    /\ UNCHANGED <<snapshot, accounts, transactions, invoices, backup_success, fixed_count,
                   old_payment_txns, seeds_used, created, tb, de, pre, before_fix>>

Next ==
    \/ Start
    \/ Backup
    \/ FixAccountTypes("fix_types", "delete")
    \/ DeleteAllTransactions
    \/ ResetAccountBalances
    \/ RebuildTransactions
    \/ ValidateTrialBalance("validate_tb", "validate_de")
    \/ ValidateDoubleEntry("validate_de", "report")
    \/ GenerateAuditReport

Spec == Init /\ [][Next]_vars

-----------------------------------------------------------------------------
(* fix_account_types called twice in succession on a store of accounts.     *)

ClassifyNames ==
    {"Bank Charges", "Downtown Bank Branch", "PETTY CASH", "Sales Income",
     "Office Supplies", ""}

ClassifyTypes == {"asset", "expense", "Asset", "xyz", "", NoField}

ClassifyDocs ==
    {[name |-> n, account_type |-> t, opening_balance |-> 0, current_balance |-> 0,
      is_deleted |-> FALSE] : n \in ClassifyNames, t \in ClassifyTypes}
    \cup {[name |-> "Bank Charges", account_type |-> "xyz", opening_balance |-> 0,
           current_balance |-> 0, is_deleted |-> TRUE]}

InitClassify ==
    /\ \E docs \in SeqsUpTo(ClassifyDocs, MaxAccounts) : accounts = WithIds(docs)
    /\ transactions = <<>>
    /\ invoices = <<>>
    /\ pc = "classify"
    /\ InitRest

NextClassify ==
    \/ FixAccountTypes("classify", "classify_again")
    \/ FixAccountTypes("classify_again", "classified")

SpecClassify == InitClassify /\ [][NextClassify]_vars

-----------------------------------------------------------------------------
(* The two validators called on a store as it is found.                     *)

InitValidate == InitStore /\ pc = "check_tb" /\ InitRest

NextValidate ==
    \/ ValidateTrialBalance("check_tb", "check_de")
    \/ ValidateDoubleEntry("check_de", "checked")

SpecValidate == InitValidate /\ [][NextValidate]_vars

-----------------------------------------------------------------------------
(* restore_accounting_data.py run by the operator on the backup file of a   *)
(* run that was stopped between two steps or that ran to its end.           *)

\* one of the five blocks of lines 52-88 without its delete_many
\* (faulty variant)
RestoredCollectionNoClear(current, collections, key) ==
    IF key \in DOMAIN collections THEN current \o collections[key] ELSE current

\* one of the five blocks of lines 52-88: the collection is cleared and
\* refilled only when the backup file holds it
RestoredCollection(current, collections, key) ==
    IF key \in DOMAIN collections
    THEN LET cleared == <<>>
         IN  IF collections[key] # <<>> THEN cleared \o collections[key]
             ELSE cleared
    ELSE current

\* the positions between two steps of comprehensive_fix, after the backup
BetweenSteps ==
    {"fix_types", "delete", "reset", "rebuild", "validate_tb", "validate_de", "report"}

\* the script is stopped between two steps
Cancel ==
    /\ pc \in BetweenSteps
    /\ pc' = "cancelled"
    /\ UNCHANGED <<accounts, transactions, invoices, runs, backup_success, fixed_count,
                   old_payment_txns, seeds_used, created, tb, de, result, pre, report,
                   before_fix, done_stores, exit_status, snapshot>>

\* python restore_accounting_data.py <backup file of the run>
RestoreAccountingData ==
    /\ pc \in {"cancelled", "done"}
    /\ snapshot # <<>>
    /\ LET collections == snapshot[1]
       IN  /\ accounts' = RestoredCollection(accounts, collections, "accounts")
           /\ transactions' =
                 RestoredCollection(transactions, collections, "transactions")
           /\ invoices' = RestoredCollection(invoices, collections, "invoices")
    /\ exit_status' = 0
    /\ pc' = "restored"
    /\ UNCHANGED <<runs, backup_success, fixed_count, old_payment_txns, seeds_used,
                   created, tb, de, result, pre, report, before_fix, done_stores,
                   snapshot>>

\* one run of the script, stopped or not, then the restore
NextRestore ==
    \/ (runs = 0 /\ Start)
    \/ Backup
    \/ FixAccountTypes("fix_types", "delete")
    \/ DeleteAllTransactions
    \/ ResetAccountBalances
    \/ RebuildTransactions
    \/ ValidateTrialBalance("validate_tb", "validate_de")
    \/ ValidateDoubleEntry("validate_de", "report")
    \/ GenerateAuditReport
    \/ Cancel
    \/ RestoreAccountingData

SpecRestore == Init /\ [][NextRestore]_vars

-----------------------------------------------------------------------------
(* Properties.                                                              *)

\* positions of the script after rebuild_transactions_from_payments returned
AfterRebuild == {"validate_tb", "validate_de", "report", "done"}

ActiveAccounts(accs) == {i \in DOMAIN accs : ~accs[i].is_deleted}
ActiveTransactions(txns) == {i \in DOMAIN txns : ~txns[i].is_deleted}

RECURSIVE SumDeltas(_, _, _)
\* the signed sum, under the account's stored type, of the active
\* transactions that reference the account
SumDeltas(account, txns, k) ==
    IF k > Len(txns) THEN 0
    ELSE (IF ~txns[k].is_deleted /\ txns[k].account_id = account.id
          THEN calculate_balance_delta(account.account_type,
                                       txns[k].transaction_type, txns[k].amount)
          ELSE 0)
         + SumDeltas(account, txns, k + 1)

\* C1: after a full run every active account's current_balance is its
\* opening_balance plus the deltas, under its stored type, of the active
\* transactions that reference it.
C1_BalanceEquation ==
    pc \in AfterRebuild =>
        \A i \in ActiveAccounts(accounts) :
            accounts[i].current_balance =
                accounts[i].opening_balance + SumDeltas(accounts[i], transactions, 1)

\* a run has finished in which an asset account with a non-zero opening
\* balance and an income account were both moved by rebuilt transactions, from
\* a store where some balance differed from its opening balance
C1_Witness ==
    /\ pc = "done"
    /\ \E i \in ActiveAccounts(accounts) :
          /\ accounts[i].account_type = "asset"
          /\ accounts[i].opening_balance # 0
          /\ accounts[i].current_balance > accounts[i].opening_balance
    /\ \E i \in ActiveAccounts(accounts) :
          /\ accounts[i].account_type = "income"
          /\ accounts[i].current_balance # accounts[i].opening_balance
    /\ \E i \in DOMAIN pre.accounts :
          /\ ~pre.accounts[i].is_deleted
          /\ pre.accounts[i].current_balance # pre.accounts[i].opening_balance

\* the transactions inserted since the current run started
NewTransactions == (Len(pre.transactions) + 1)..Len(transactions)

\* C2: the transactions a rebuild creates are an even number and fall into
\* consecutive pairs of one debit and one credit of equal amount that
\* reference the same invoice.
C2_PairPreserving ==
    pc \in AfterRebuild =>
        LET n == Len(transactions) - Len(pre.transactions)
            first == Len(pre.transactions)
        IN  /\ n % 2 = 0
            /\ Len(created) = n
            /\ \A j \in 1..n : created[j] = first + j
            /\ \A p \in 1..(n \div 2) :
                  LET d == transactions[first + 2 * p - 1]
                      c == transactions[first + 2 * p]
                  IN  /\ d.transaction_type = "debit"
                      /\ c.transaction_type = "credit"
                      /\ d.amount = c.amount
                      /\ d.reference_type = "invoice"
                      /\ c.reference_type = "invoice"
                      /\ d.reference_id = c.reference_id
                      /\ d.reference_id # 0

\* a rebuild has created two pairs for two different invoices
C2_Witness ==
    /\ pc = "done"
    /\ Len(created) >= 4
    /\ \E j, k \in NewTransactions :
          transactions[j].reference_id # transactions[k].reference_id

\* C3: when the backup step fails comprehensive_fix returns failure before
\* Step 1 and the store is what it was when the call began.
C3_BackupFailureAborts ==
    (pc \notin {"idle", "backup"} /\ ~backup_success) =>
        /\ pc = "aborted"
        /\ result = FALSE
        /\ Store = pre

\* a backup has failed on a store that holds accounts and active transactions,
\* after an earlier run had completed
C3_Witness ==
    /\ pc = "aborted"
    /\ ~backup_success
    /\ runs >= 1
    /\ ActiveAccounts(accounts) # {}
    /\ ActiveTransactions(transactions) # {}

\* C4: after fix_account_types every non-deleted account has one of the five
\* canonical account_type values, whatever it held before.
C4_TypesCanonical ==
    pc \in {"classify_again", "classified"} =>
        \A i \in ActiveAccounts(accounts) : accounts[i].account_type \in ACCOUNT_TYPES

\* the invoice-referencing transactions that were active when the run started
JustDeleted ==
    {i \in DOMAIN pre.transactions :
        /\ ~pre.transactions[i].is_deleted
        /\ pre.transactions[i].reference_type = "invoice"}

\* C5: in every run the rebuild reads as seeds the invoice-referencing
\* transactions that were active when the run started, and makes a pair from
\* none that was already soft-deleted then.
C5_SeedsAreJustDeleted ==
    pc \in AfterRebuild =>
        /\ JustDeleted \subseteq {old_payment_txns[k] : k \in DOMAIN old_payment_txns}
        /\ {seeds_used[k] : k \in DOMAIN seeds_used} \subseteq JustDeleted

\* the current_balance of every active account of a store, by id
Balances(store) ==
    {<<store.accounts[i].id, store.accounts[i].current_balance>> :
        i \in ActiveAccounts(store.accounts)}

\* how many active transactions of a store have each type and amount
ActiveLegs(store) ==
    LET active == ActiveTransactions(store.transactions)
        kinds == {<<store.transactions[i].transaction_type,
                    store.transactions[i].amount>> : i \in active}
    IN  {<<kd, Cardinality({i \in active :
                  <<store.transactions[i].transaction_type,
                    store.transactions[i].amount>> = kd})>> : kd \in kinds}

\* C6: a run made right after a completed run leaves the balances of the
\* active accounts and the active transactions (their number and amounts) as
\* the earlier run left them.
C6_RunIdempotent ==
    \A r \in 2..Len(done_stores) :
        /\ Balances(done_stores[r]) = Balances(done_stores[r - 1])
        /\ ActiveLegs(done_stores[r]) = ActiveLegs(done_stores[r - 1])

\* C7: an active account whose account_type is not canonical, a missing one
\* included, is added to neither total of the trial balance.
C7_UnknownExcluded ==
    pc \in {"check_de", "checked"} =>
        /\ tb.total_debit_balance = SumBalances(accounts, {"asset", "expense"}, 1)
        /\ tb.total_credit_balance =
               SumBalances(accounts, {"income", "liability", "equity"}, 1)

\* C8: each validator reports balanced exactly when its two totals differ by
\* less than 1.0; a difference of exactly 1.0 is not balanced.
C8_ToleranceLaw ==
    /\ pc \in {"check_de", "checked"} =>
          (tb.is_balanced <=>
              Abs(tb.total_debit_balance - tb.total_credit_balance) < Tolerance)
    /\ pc = "checked" =>
          (de <=> Abs(SumAmounts(transactions, "debit", 1)
                      - SumAmounts(transactions, "credit", 1)) < Tolerance)

\* both validators have met totals that differ by exactly 1.0 and reported
\* not balanced
C8_Witness ==
    /\ pc = "checked"
    /\ Abs(tb.total_debit_balance - tb.total_credit_balance) = Tolerance
    /\ ~tb.is_balanced
    /\ Abs(SumAmounts(transactions, "debit", 1)
           - SumAmounts(transactions, "credit", 1)) = Tolerance
    /\ ~de

\* C9: a second fix_account_types right after a first corrects nothing and
\* leaves every account as the first left it.
C9_ClassifyIdempotent ==
    pc = "classified" => (fixed_count = 0 /\ accounts = before_fix)

\* the second call has returned after a first call that corrected a matched
\* account and defaulted an unmatched one
C9_Witness ==
    /\ pc = "classified"
    /\ \E i, j \in ActiveAccounts(accounts) :
          /\ pre.accounts[i].name = "Bank Charges"
          /\ pre.accounts[i].account_type = "expense"
          /\ accounts[i].account_type = "asset"
          /\ pre.accounts[j].name = "Office Supplies"
          /\ pre.accounts[j].account_type = "xyz"
          /\ accounts[j].account_type = "asset"

RangeOf(indices) == {indices[k] : k \in DOMAIN indices}

PositiveNonIncome(t) == t.amount > 0 /\ ~Contains(Get(t.category, ""), "Income")

NamesLiveInvoice(t) ==
    /\ t.reference_id # 0
    /\ \E i \in DOMAIN invoices :
          invoices[i].id = t.reference_id /\ ~invoices[i].is_deleted

C12_ZeroSeedInert ==
    /\ [](pc \in AfterRebuild =>
            /\ \A i \in RangeOf(old_payment_txns) :
                  transactions[i].amount <= 0 => i \notin RangeOf(seeds_used)
            /\ \A j \in RangeOf(created) : transactions[j].amount > 0)
    /\ [][(/\ pc = "rebuild"
           /\ \A i \in RangeOf(old_payment_txns') : transactions[i].amount <= 0)
          => /\ transactions' = transactions
             /\ \A i \in DOMAIN accounts :
                   accounts'[i].current_balance = accounts[i].current_balance]_vars

\* a rebuild has read a zero-amount seed of a live invoice, with a category
\* without 'Income', next to a seed it made a pair from
C12_Witness ==
    /\ pc = "done"
    /\ Len(created) = 2
    /\ \E i \in RangeOf(old_payment_txns) :
          /\ transactions[i].amount = 0
          /\ NamesLiveInvoice(transactions[i])
          /\ ~Contains(Get(transactions[i].category, ""), "Income")

RECURSIVE SumSeedAmounts(_, _, _)
\* the sum of the amounts of the seeds, from the k-th on, that satisfy the
\* test given as the set of account ids they may reference
SumSeedAmounts(seeds, ids, k) ==
    IF k > Len(seeds) THEN 0
    ELSE (IF transactions[seeds[k]].account_id \in ids
          THEN transactions[seeds[k]].amount ELSE 0)
         + SumSeedAmounts(seeds, ids, k + 1)

\* the ids of the accounts that were active and of type asset when the run
\* started
ActiveAssetsBefore ==
    {pre.accounts[i].id : i \in {j \in DOMAIN pre.accounts :
        ~pre.accounts[j].is_deleted /\ pre.accounts[j].account_type = "asset"}}

\* C13: after a full run from a store where every opening balance is zero and
\* every seed references an active asset account, both validators report
\* balanced, the income account's balance and both trial-balance totals equal
\* the sum of the seed amounts, and each seeded account's balance is the sum
\* of its seeds' amounts.
C13_ZeroOpeningScenario ==
    (/\ pc = "done"
     /\ \A i \in DOMAIN pre.accounts : pre.accounts[i].opening_balance = 0
     /\ \A i \in RangeOf(seeds_used) :
           transactions[i].account_id \in ActiveAssetsBefore)
    => LET total == SumSeedAmounts(seeds_used, ActiveAssetsBefore, 1)
           sales == FindOne({i \in DOMAIN accounts : IsActiveSales(accounts[i])})
       IN  /\ tb.is_balanced
           /\ de
           /\ sales # 0
           /\ accounts[sales].current_balance = total
           /\ \A i \in ActiveAccounts(accounts) :
                 accounts[i].id \in ActiveAssetsBefore =>
                     accounts[i].current_balance =
                         SumSeedAmounts(seeds_used, {accounts[i].id}, 1)
           /\ tb.total_debit_balance = total
           /\ tb.total_credit_balance = total

\* C14: the process of a run ends with exit status zero exactly when the
\* backup succeeded and both the trial-balance check and the double-entry
\* check of that run succeeded.
C14_ExitStatusReflectsChecks ==
    pc \in {"done", "aborted"} =>
        (exit_status = 0 <=> (backup_success /\ tb.is_balanced /\ de))

\* every active account's current_balance is its opening_balance
AllReset(accs) ==
    \A i \in ActiveAccounts(accs) : accs[i].current_balance = accs[i].opening_balance

\* C15: in every run the balances are reset only when no transaction is
\* active, the rebuild starts only when no transaction is active and every
\* active account's balance is its opening balance, nothing is inserted at
\* any other position, and from the first validator to the end of the run the
\* store no longer changes, so that the verdicts are those of the final store.
C15_StagesOrdered ==
    /\ [](/\ pc = "reset" => ActiveTransactions(transactions) = {}
          /\ pc = "rebuild" =>
                ActiveTransactions(transactions) = {} /\ AllReset(accounts)
          /\ pc = "done" =>
                /\ tb = validate_trial_balance(accounts)
                /\ de = validate_double_entry(transactions))
    /\ [][/\ Len(transactions') > Len(transactions) => pc = "rebuild"
          /\ pc \in {"validate_tb", "validate_de", "report"} => Store' = Store]_vars

\* the rebuild of a run has just inserted pairs, in a run that began with
\* active transactions and with a balance that differed from its opening
\* balance; the validators have not run yet
C15_Witness ==
    /\ pc = "validate_tb"
    /\ Len(created) >= 2
    /\ ActiveTransactions(pre.transactions) # {}
    /\ ~AllReset(pre.accounts)

\* the transactions that were active when the current run started
ActiveBefore == ActiveTransactions(pre.transactions)

\* C16: once the delete step of a run has run, every transaction that was
\* active when the run started is deleted, stamped with the time of the step
\* and with the actor tag of the script; after the rebuild the active
\* transactions are exactly the ones that rebuild created.
C16_AllTombstoned ==
    /\ pc \in {"reset", "rebuild"} \cup AfterRebuild =>
          \A i \in ActiveBefore :
              /\ transactions[i].is_deleted
              /\ transactions[i].deleted_at = runs + (IF pc = "done" THEN 0 ELSE 1)
              /\ transactions[i].deleted_by = FIX_ACTOR
    /\ pc \in {"reset", "rebuild"} => ActiveTransactions(transactions) = {}
    /\ pc \in AfterRebuild => ActiveTransactions(transactions) = RangeOf(created)

\* a run has finished that tombstoned an invoice payment and a purchase and
\* created a pair
C16_Witness ==
    /\ pc = "done"
    /\ Len(created) = 2
    /\ \E i, j \in ActiveBefore :
          /\ transactions[i].reference_type = "invoice"
          /\ transactions[j].reference_type = "purchase"

\* the accounts inserted since the current run started
NewAccounts == (Len(pre.accounts) + 1)..Len(accounts)

HadActiveCash == \E i \in DOMAIN pre.accounts : IsActiveCash(pre.accounts[i])
HadActiveSales == \E i \in DOMAIN pre.accounts : IsActiveSales(pre.accounts[i])

\* C17: after the rebuild there is an active account named 'Cash' of type
\* asset and an active account named 'Sales Income' or 'Sales' of type income;
\* one is inserted, with zero opening balance and a balance made of its new
\* transactions only, exactly when the run found no such active account, and
\* every credit leg the rebuild created references one such income account.
C17_StandardAccountsEnsured ==
    pc \in AfterRebuild =>
        /\ \E i \in ActiveAccounts(accounts) :
              accounts[i].name = "Cash" /\ accounts[i].account_type = "asset"
        /\ \E i \in ActiveAccounts(accounts) :
              /\ IsActiveSales(accounts[i])
              /\ accounts[i].account_type = "income"
              /\ \A j \in RangeOf(created) :
                    transactions[j].transaction_type = "credit" =>
                        transactions[j].account_id = accounts[i].id
        /\ Cardinality({i \in NewAccounts : accounts[i].name = "Cash"})
              = (IF HadActiveCash THEN 0 ELSE 1)
        /\ Cardinality({i \in NewAccounts : accounts[i].name \in {"Sales Income", "Sales"}})
              = (IF HadActiveSales THEN 0 ELSE 1)
        /\ \A i \in NewAccounts :
              /\ accounts[i].name \in {"Cash", "Sales Income", "Sales"}
              /\ accounts[i].opening_balance = 0
              /\ accounts[i].current_balance = SumDeltas(accounts[i], transactions, 1)

RECURSIVE SumDebitLegs(_, _)
\* the sum of the amounts of the debit legs among the created transactions,
\* from the k-th on, that reference the account with the given id
SumDebitLegs(id, k) ==
    IF k > Len(created) THEN 0
    ELSE (IF /\ transactions[created[k]].transaction_type = "debit"
             /\ transactions[created[k]].account_id = id
          THEN transactions[created[k]].amount ELSE 0)
         + SumDebitLegs(id, k + 1)

\* the seed names an account that is active
ReferencesActiveAccount(t) ==
    \E i \in ActiveAccounts(accounts) : accounts[i].id = t.account_id

\* C18: the debit leg made from a seed references the seed's account when
\* that account is active and the ensured Cash account otherwise (account_id
\* missing, unknown or soft-deleted); after a rebuild in which a seed fell
\* back to Cash, the Cash account's balance is its opening balance plus the
\* amounts of the debit legs that reference it, and so is the balance of
\* every other asset or expense account.
C18_CashFallback ==
    pc \in AfterRebuild =>
        LET cash == FindOne({i \in DOMAIN accounts : IsActiveCash(accounts[i])})
        IN  /\ cash # 0
            /\ \A k \in DOMAIN seeds_used :
                  LET seed == transactions[seeds_used[k]]
                      debit == transactions[created[2 * k - 1]]
                  IN  /\ debit.transaction_type = "debit"
                      /\ debit.amount = seed.amount
                      /\ debit.account_id =
                            IF ReferencesActiveAccount(seed) THEN seed.account_id
                            ELSE accounts[cash].id
            /\ (\E k \in DOMAIN seeds_used :
                    ~ReferencesActiveAccount(transactions[seeds_used[k]]))
               => \A i \in ActiveAccounts(accounts) :
                    (i = cash \/ accounts[i].account_type \in {"asset", "expense"}) =>
                        accounts[i].current_balance =
                            accounts[i].opening_balance + SumDebitLegs(accounts[i].id, 1)

\* C19: the p-th pair a rebuild creates carries the sequence numbers 2p - 1
\* (debit leg: the transactions active just before the pair, plus one) and 2p
\* (credit leg), so the sequence numbers of the active transactions are
\* pairwise distinct and are exactly 1..2k for k pairs.
C19_ConsecutiveNumbers ==
    pc \in AfterRebuild =>
        LET active == ActiveTransactions(transactions)
            numbers == {transactions[i].transaction_number : i \in active}
        IN  /\ \A j \in DOMAIN created :
                  transactions[created[j]].transaction_number = j
            /\ \A p \in 1..(Len(created) \div 2) :
                  /\ transactions[created[2 * p - 1]].transaction_type = "debit"
                  /\ transactions[created[2 * p]].transaction_type = "credit"
            /\ Cardinality(numbers) = Cardinality(active)
            /\ numbers = 1..(2 * Len(seeds_used))

\* a second run has created two pairs over a store that holds the tombstones
\* of the first run
C19_Witness ==
    /\ pc = "done"
    /\ runs = 2
    /\ Len(created) = 4

\* C20: after the restore of the backup file of a run, whether the run was
\* stopped between two steps or ran to its end, each of accounts,
\* transactions and invoices is exactly what the backup file holds, which is
\* the collection as it was when the run started: what the run inserted is
\* gone and what it changed is as before.
C20_RestoreRoundTrip ==
    pc = "restored" =>
        /\ accounts = snapshot[1].accounts
        /\ transactions = snapshot[1].transactions
        /\ invoices = snapshot[1].invoices
        /\ Store = pre

\* the restore has run after a run that was stopped between its rebuild and
\* its validators, and that had corrected a type, tombstoned transactions and
\* inserted an account and a pair of transactions
C20_Witness ==
    /\ pc = "restored"
    /\ tb = NoTrialBalance
    /\ Len(created) >= 2
    /\ fixed_count > 0
    /\ ~HadActiveCash
    /\ ActiveTransactions(transactions) # {}

\* C21: at every position of a run, every account and transaction document
\* the run found is still there, in place; the invoices are as found; an
\* account differs from what was found in account_type and current_balance
\* at most; a transaction found soft-deleted is unchanged in every field; a
\* transaction found active differs in is_deleted, deleted_at and deleted_by
\* at most.
C21_FrameOfARun ==
    /\ invoices = pre.invoices
    /\ Len(accounts) >= Len(pre.accounts)
    /\ Len(transactions) >= Len(pre.transactions)
    /\ \A i \in DOMAIN pre.accounts :
          [accounts[i] EXCEPT !.account_type = pre.accounts[i].account_type,
                              !.current_balance = pre.accounts[i].current_balance]
              = pre.accounts[i]
    /\ \A i \in DOMAIN pre.transactions :
          IF pre.transactions[i].is_deleted
          THEN transactions[i] = pre.transactions[i]
          ELSE [transactions[i] EXCEPT !.is_deleted = FALSE,
                                       !.deleted_at = pre.transactions[i].deleted_at,
                                       !.deleted_by = pre.transactions[i].deleted_by]
                   = pre.transactions[i]

\* a second run has finished on a store that held a transaction tombstoned
\* by an administrator and the tombstones of the first run; it changed a
\* balance and inserted a pair
C21_Witness ==
    /\ pc = "done"
    /\ runs = 2
    /\ Len(created) >= 2
    /\ \E i \in DOMAIN pre.transactions : pre.transactions[i].deleted_by = "admin"
    /\ \E i \in DOMAIN pre.transactions : pre.transactions[i].deleted_by = FIX_ACTOR
    /\ \E i \in DOMAIN pre.accounts :
          accounts[i].current_balance # pre.accounts[i].current_balance

RECURSIVE SumOfField(_, _, _, _)
\* the sum of a balance field over the active accounts, from the k-th on,
\* whose stored account_type is in types
SumOfField(accs, types, field, k) ==
    IF k > Len(accs) THEN 0
    ELSE (IF ~accs[k].is_deleted /\ accs[k].account_type \in types
          THEN accs[k][field] ELSE 0)
         + SumOfField(accs, types, field, k + 1)

\* debit-normal total minus credit-normal total of a balance field
NormalDifference(accs, field) ==
    SumOfField(accs, {"asset", "expense"}, field, 1)
        - SumOfField(accs, {"income", "liability", "equity"}, field, 1)

\* C22: after a full run the difference between the debit-normal and the
\* credit-normal accounts' current balances is the same difference taken
\* over their opening balances, and the trial-balance check has passed
\* whenever the opening balances differ by less than the tolerance.
C22_DifferencePreserved ==
    pc = "done" =>
        /\ NormalDifference(accounts, "current_balance")
              = NormalDifference(accounts, "opening_balance")
        /\ Abs(NormalDifference(accounts, "opening_balance")) < Tolerance
              => tb.is_balanced

====
